---- MODULE Spec2Model ----
(***************************************************************************)
(* HS-code classification engine of trade-agent.                           *)
(*                                                                         *)
(*   LLMHSClassifier   (src/llm_hs_classifier.py)  reasoning path          *)
(*   classify_hs       (src/data_collection/classifier.py)  embedding path *)
(*   TradeAgent        (src/trade_agent.py)  embedding path entry points   *)
(*                                                                         *)
(* Text is a sequence of one-character strings.  A confidence is an        *)
(* integer number of tenths (9 is 0.9); a cosine similarity is an integer  *)
(* number of 25ths (every embedding of the model has norm 5).              *)
(***************************************************************************)
EXTENDS Integers, Sequences, FiniteSets, TLC

VARIABLES
    hts_source,    \* the HTS JSON file: status "ok", "missing" or "malformed"
    cache,         \* the pickle at hs_data_cache_path: exists, entries
    hs_database,   \* LLMHSClassifier.hs_database: the raw HTS records
    groq_client,   \* LLMHSClassifier.groq_client is not None
    hs_entries,    \* TradeAgent.hs_entries: records with embeddings
    pc,            \* "idle": no invocation; "done": an invocation has returned
    call,          \* the invocation: entry point and arguments, service outcome
    ret,           \* what the invocation returned and the path it took
    count,         \* service calls made by the invocation
    sample,        \* the knowledge sample the invocation put in its prompt
    raised,        \* the invocation ended by raising to its caller
    prev,          \* the previous invocation and what it returned
    prompt,        \* the user prompt built by the invocation in progress
    form,          \* a form-filling call: extracted values, classifier outcome
    users,         \* rows of the users table (models.User)
    token_blacklist, \* auth.token_blacklist
    issued,        \* the tokens generate_token has signed so far
    now,           \* the clock, in hours
    response,      \* the HTTP response of the request just served
    agents,        \* concurrent TradeAgent initialisations, one per process
    cache_file,    \* the cache file as those initialisations see it
    classifier_instance, \* llm_hs_classifier._classifier_instance
    threads,       \* request threads inside get_classifier
    constructions  \* LLMHSClassifier objects constructed by the process

engine_vars == <<hts_source, cache, hs_database, groq_client, hs_entries,
                 pc, call, ret, count, sample, raised>>

auth_vars == <<users, token_blacklist, issued, now, response>>

race_vars == <<agents, cache_file>>

singleton_vars == <<classifier_instance, threads, constructions>>

\* what the classification entry points and the constructors never touch
aux == <<prev, prompt, form, auth_vars, race_vars, singleton_vars>>

vars == <<engine_vars, aux>>

(***************************************************************************)
(* Bounds of the model.                                                    *)
(***************************************************************************)
MaxCatalogLen == 2      \* records in the HTS source file
MaxTopN == 2            \* top_n ranges over 0..MaxTopN
MaxMatches == 2         \* entries of the "matches" array of a response
MaxSampleLen == 300     \* records of the catalogs given to the sampler
MaxFallbackLen == 3     \* records of the catalogs given to the Fallback Matcher
MaxFields == 3          \* fields of a form template
MaxIssued == 2          \* tokens signed in one run of the web application
MaxNow == 24            \* hours the clock runs

\* TradeAgent initialisations running at once
MaxAgents == 2

\* request threads calling get_classifier
MaxThreads == 3

(***************************************************************************)
(* Python helpers.                                                         *)
(***************************************************************************)
Min(a, b) == IF a <= b THEN a ELSE b
Max(a, b) == IF a >= b THEN a ELSE b

\* seq[:n]
PySliceOffByOne(seq, n) ==
    IF n >= 0 THEN SubSeq(seq, 1, Min(n + 1, Len(seq)))
    ELSE SubSeq(seq, 1, Max(0, Len(seq) + n + 1))

PySlice(seq, n) ==
    IF n >= 0 THEN SubSeq(seq, 1, Min(n, Len(seq)))
    ELSE SubSeq(seq, 1, Max(0, Len(seq) + n))

\* str.isspace() of one character
IsSpace(c) == c = " "

\* str.lower() of one character; the alphabet has the cased letters a, b
LowerChar(c) == IF c = "A" THEN "a" ELSE IF c = "B" THEN "b" ELSE c

\* str.lower()
Lower(s) == [i \in 1..Len(s) |-> LowerChar(s[i])]

\* str.strip(): drop leading and trailing whitespace
Strip(s) ==
    LET solid == {i \in 1..Len(s) : ~IsSpace(s[i])}
    IN  IF solid = {} THEN <<>>
        ELSE LET lo == CHOOSE i \in solid : \A j \in solid : i <= j
                 hi == CHOOSE i \in solid : \A j \in solid : i >= j
             IN  SubSeq(s, lo, hi)

\* str.split(): the maximal runs of non-whitespace characters, in order
RECURSIVE SplitFrom(_, _, _)
SplitFrom(s, i, word) ==
    IF i > Len(s) THEN (IF word = <<>> THEN <<>> ELSE <<word>>)
    ELSE IF IsSpace(s[i])
         THEN (IF word = <<>> THEN <<>> ELSE <<word>>) \o SplitFrom(s, i + 1, <<>>)
         ELSE SplitFrom(s, i + 1, Append(word, s[i]))

Split(s) == SplitFrom(s, 1, <<>>)

\* set(text.lower().split())
WordSet(s) ==
    LET words == Split(Lower(s))
    IN  {words[i] : i \in 1..Len(words)}

\* list.sort(key=..., reverse=True) is stable: equal keys keep their order.
\* Insert index i behind every index whose key is at least keys[i].
InsertDescTiesReversed(order, keys, i) ==
    SelectSeq(order, LAMBDA j : keys[j] > keys[i]) \o <<i>>
        \o SelectSeq(order, LAMBDA j : keys[j] <= keys[i])

InsertDesc(order, keys, i) ==
    SelectSeq(order, LAMBDA j : keys[j] >= keys[i]) \o <<i>>
        \o SelectSeq(order, LAMBDA j : keys[j] < keys[i])

RECURSIVE SortFrom(_, _, _)
SortFrom(keys, i, order) ==
    IF i > Len(keys) THEN order
    ELSE SortFrom(keys, i + 1, InsertDesc(order, keys, i))

SortDescIndicesUnsorted(keys) == [i \in 1..Len(keys) |-> i]

\* the indices of keys in the order list.sort(reverse=True) leaves them
SortDescIndices(keys) == SortFrom(keys, 1, <<>>)

(***************************************************************************)
(* The HTS source file and the two catalogs built from it.                 *)
(***************************************************************************)
\* Records of an HTS source file (hts_current.json), each with the vector
\* the embedding model gives its description.  Codes repeat, one record has
\* an empty description, two records share description and vector.
HtsRecords ==
    { [htsno |-> "0101", description |-> <<"a">>,           embedding |-> <<5, 0>>],
      [htsno |-> "0202", description |-> <<"a", " ", "B">>, embedding |-> <<3, 4>>],
      [htsno |-> "0101", description |-> <<>>,              embedding |-> <<0, 5>>],
      [htsno |-> "0202", description |-> <<"a">>,           embedding |-> <<5, 0>>] }

HtsFiles == UNION {[1..n -> HtsRecords] : n \in 0..MaxCatalogLen}

\* LLMHSClassifier._load_hts_database: the records as json.load gives them
LoadHtsDatabase(file) ==
    [i \in 1..Len(file) |->
        [htsno |-> file[i].htsno, description |-> file[i].description]]

\* load_hts_data: the records that have a description
LoadHtsData(file) ==
    LET kept == SelectSeq(file, LAMBDA item : item.description # <<>>)
    IN  [i \in 1..Len(kept) |->
            [htsno |-> kept[i].htsno, description |-> kept[i].description]]

\* generate_embeddings: each entry gets the vector of its description
GenerateEmbeddings(entries, file) ==
    LET kept == SelectSeq(file, LAMBDA item : item.description # <<>>)
    IN  [i \in 1..Len(entries) |->
            [htsno |-> entries[i].htsno,
             description |-> entries[i].description,
             embedding |-> kept[i].embedding]]

(***************************************************************************)
(* Inputs of a classification and outcomes of the services.                *)
(***************************************************************************)
ProductDescriptions == {<<>>, <<" ">>, <<"a">>}

TopNs == 0..MaxTopN

\* vectors the embedding model returns for a query (norm 5)
Vectors == {<<5, 0>>, <<0, 5>>, <<3, 4>>}

\* One element (a JSON object) of the "matches" array.  has_code, hs_code:
\* its "hs_code" key; conf_kind: "missing", "number" or "text" (a string
\* float() rejects); conf: the number, in tenths.
Matches ==
    { [has_code |-> TRUE,  hs_code |-> "0101",
       conf_kind |-> "number",  conf |-> 9,  reasoning |-> "r"],
      [has_code |-> TRUE,  hs_code |-> "9999",
       conf_kind |-> "missing", conf |-> 0,  reasoning |-> ""],
      [has_code |-> FALSE, hs_code |-> "",
       conf_kind |-> "number",  conf |-> 15, reasoning |-> "r"],
      [has_code |-> TRUE,  hs_code |-> "0202",
       conf_kind |-> "text",    conf |-> 0,  reasoning |-> "r"] }

MatchLists == UNION {[1..n -> Matches] : n \in 0..MaxMatches}

\* What lines 187-191 make of the response text.  kind: "invalid" (json.loads
\* raises), "array" (a JSON value that is no object) or "object"; matches:
\* "missing" (no such key), "null" or "list", with the list in items.
Jsons ==
    { [kind |-> "invalid", matches |-> "missing", items |-> <<>>],
      [kind |-> "array",   matches |-> "missing", items |-> <<>>],
      [kind |-> "object",  matches |-> "missing", items |-> <<>>],
      [kind |-> "object",  matches |-> "null",    items |-> <<>>] }
    \cup {[kind |-> "object", matches |-> "list", items |-> l] : l \in MatchLists}

\* message.content as the model returned it
ResponseTexts == {<<"c">>, <<" ", "B", " ", "a">>}

\* Outcomes of groq_client.chat.completions.create: it raises, or returns text
LLMOutcomes ==
    { [kind |-> "raise", text |-> <<>>,
       json |-> [kind |-> "invalid", matches |-> "missing", items |-> <<>>]] }
    \cup {[kind |-> "text", text |-> t, json |-> j] : t \in ResponseTexts, j \in Jsons}

NoOutcome ==
    [kind |-> "none", text |-> <<>>,
     json |-> [kind |-> "invalid", matches |-> "missing", items |-> <<>>]]

NoVector == <<0, 0>>

(***************************************************************************)
(* LLMHSClassifier (src/llm_hs_classifier.py).                             *)
(***************************************************************************)
KnowledgeBudget == 120

\* list(range(start, stop, step)), step > 0: start, start + step, ... below
\* stop, which are (stop - start + step - 1) // step numbers
PyRange(start, stop, step) ==
    LET length == IF start < stop THEN (stop - start + step - 1) \div step ELSE 0
    IN  [k \in 1..length |-> start + (k - 1) * step]

KnowledgeStepRoundedUp(db) == (Len(db) + KnowledgeBudget - 1) \div KnowledgeBudget

\* step = len(self.hs_database) // 120
KnowledgeStep(db) == Len(db) \div KnowledgeBudget

\* _create_knowledge_sample; Python indexes from 0
CreateKnowledgeSample(db) ==
    IF Len(db) <= KnowledgeBudget THEN db
    ELSE LET indices == PyRange(0, Len(db), KnowledgeStep(db))
         IN  [k \in 1..Len(indices) |-> db[indices[k] + 1]]

\* "not product_description or not product_description.strip()"
IsBlankNoStrip(product_description) == product_description = <<>>

IsBlank(product_description) ==
    product_description = <<>> \/ Strip(product_description) = <<>>

HasNoDatabaseNever(db) == FALSE

\* "if not self.hs_database"
HasNoDatabase(db) == db = <<>>

HasNoClientNever(client) == FALSE

\* "if not self.groq_client"
HasNoClient(client) == ~client

LLMAttemptsWithRetry(outcome) == IF outcome.kind = "raise" THEN 2 ELSE 1

\* executions of groq_client.chat.completions.create (line 90) by a classify
\* that reaches it: the call is in no loop and no handler repeats it
LLMAttempts(outcome) == 1

OnLLMErrorKeywordMatch(product_description, top_n, db) ==
    [results |-> [k \in 1..Len(db) |->
                     [hs_code |-> db[k].htsno, description |-> db[k].description,
                      confidence |-> 0, reasoning |-> ""]],
     path |-> "error"]

\* lines 114-116: "except Exception: ... return []"
OnLLMError(product_description, top_n, db) == [results |-> <<>>, path |-> "error"]

DescriptionNotFound == <<"Description not found">>

FallbackReasoning == "Keyword-based match (fallback)"

\* lines 203-207: the description of the first record with that code
FullDesc(hs_code, db) ==
    LET hits == {i \in 1..Len(db) : db[i].htsno = hs_code}
    IN  IF hits = {} THEN <<>>
        ELSE db[CHOOSE i \in hits : \A j \in hits : i <= j].description

\* lines 198-214: one result from one match
EnrichMatch(match, db) ==
    LET hs_code == IF match.has_code THEN match.hs_code ELSE ""
        confidence == IF match.conf_kind = "missing" THEN 5 ELSE match.conf
        full_desc == FullDesc(hs_code, db)
    IN  [hs_code |-> hs_code,
         description |-> IF full_desc # <<>> THEN full_desc ELSE DescriptionNotFound,
         confidence |-> confidence,
         reasoning |-> match.reasoning]

\* The try block of _parse_llm_response raises: json.loads rejects the text,
\* the value has no .get, None cannot be sliced, or float() rejects the
\* confidence of one of the first top_n matches.
ParseRaises(json, top_n) ==
    \/ json.kind # "object"
    \/ json.matches = "null"
    \/ \E i \in 1..Len(PySlice(json.items, top_n)) :
            PySlice(json.items, top_n)[i].conf_kind = "text"

FallbackKeepsOverlapAboveOne(overlap) == overlap > 1

\* "if overlap > 0"
FallbackKeeps(overlap) == overlap > 0

FallbackConfidenceUncapped(score) == score

\* "min(0.5, score * 0.1)", in tenths
FallbackConfidence(score) == Min(5, score)

\* _fallback_keyword_match
FallbackKeywordMatch(product_desc, top_n, db) ==
    LET product_words == WordSet(product_desc)
        overlap == [i \in 1..Len(db) |->
                       Cardinality(product_words \cap WordSet(db[i].description))]
        kept == SelectSeq([i \in 1..Len(db) |-> i], LAMBDA i : FallbackKeeps(overlap[i]))
        scores == [k \in 1..Len(kept) |-> overlap[kept[k]]]
        order == SortDescIndices(scores)
        scored_entries == [k \in 1..Len(kept) |->
                              [entry |-> db[kept[order[k]]], score |-> scores[order[k]]]]
        top == PySlice(scored_entries, top_n)
    IN  [k \in 1..Len(top) |->
            [hs_code |-> top[k].entry.htsno,
             description |-> top[k].entry.description,
             confidence |-> FallbackConfidence(top[k].score),
             reasoning |-> FallbackReasoning]]

\* _parse_llm_response: the results, and whether the except branch ran
ParseLLMResponse(response_text, json, top_n, db) ==
    IF ParseRaises(json, top_n)
    THEN [path |-> "fallback",
          results |-> FallbackKeywordMatch(response_text, top_n, db)]
    ELSE LET matches == PySlice(json.items, top_n)
         IN  [path |-> "parsed",
              results |-> [i \in 1..Len(matches) |-> EnrichMatch(matches[i], db)]]

(***************************************************************************)
(* Embedding path (src/data_collection/classifier.py, src/trade_agent.py). *)
(***************************************************************************)
Dot(a, b) == a[1] * b[1] + a[2] * b[2]

\* sklearn's cosine_similarity, in 25ths: the vectors have norm 5 or 0, and a
\* zero vector is left as it is by the normalisation
CosineSimilarity(a, b) ==
    IF Dot(a, a) = 0 \/ Dot(b, b) = 0 THEN 0 ELSE Dot(a, b)

\* classify_hs, desc_embedding being model.encode([product_description])[0]
ClassifyHs(desc_embedding, entries, top_n) ==
    LET sims == [i \in 1..Len(entries) |->
                    CosineSimilarity(desc_embedding, entries[i].embedding)]
        order == SortDescIndices(sims)
        similarities == [k \in 1..Len(entries) |->
                            <<entries[order[k]].htsno,
                              entries[order[k]].description,
                              sims[order[k]]>>]
    IN  PySlice(similarities, top_n)

\* TradeAgent.get_hs_suggestions: the tuples as dictionaries
AsSuggestions(results) ==
    [k \in 1..Len(results) |->
        [hs_code |-> results[k][1],
         description |-> results[k][2],
         confidence |-> results[k][3]]]

(***************************************************************************)
(* State machine.                                                          *)
(***************************************************************************)
NoCall ==
    [op |-> "none", product_description |-> <<>>, top_n |-> 0,
     outcome |-> NoOutcome, desc_embedding |-> NoVector]

NoRet == [results |-> <<>>, path |-> "none"]

NoCount == [llm |-> 0, fallback |-> 0, embed |-> 0, load |-> 0]

NoCache == [exists |-> FALSE, entries |-> <<>>]

NoPrev == [call |-> NoCall, ret |-> NoRet]

NoPrompt == [sample |-> <<>>, product_description |-> <<>>, built |-> FALSE]

NoForm == [op |-> "none"]

NoToken == [user_id |-> 0, iat |-> 0, signed |-> FALSE]

NoRequest ==
    [email |-> "", username |-> "", password |-> <<>>, complete |-> FALSE,
     token |-> NoToken]

NoResponse ==
    [endpoint |-> "none", request |-> NoRequest, status |-> 0,
     token |-> NoToken, handler_ran |-> FALSE]

\* Nothing but the classification engine exists: no form call, no web
\* request, no concurrent initialisation
\* no file at hs_data_cache_path
NoCacheFile == [exists |-> FALSE, content |-> <<>>]

AuxInit ==
    /\ prev = NoPrev
    /\ prompt = NoPrompt
    /\ form = NoForm
    /\ users = <<>>
    /\ token_blacklist = {}
    /\ issued = {}
    /\ now = 0
    /\ response = NoResponse
    /\ agents = <<>>
    /\ cache_file = NoCacheFile
    /\ classifier_instance = 0
    /\ threads = <<>>
    /\ constructions = 0

\* Both engines are constructed over the same HTS source file
Init ==
    \E file \in HtsFiles :
        /\ hts_source = [status |-> "ok", records |-> file]
        /\ cache = [exists |-> TRUE,
                    entries |-> GenerateEmbeddings(LoadHtsData(file), file)]
        /\ hs_database = LoadHtsDatabase(file)
        /\ groq_client \in BOOLEAN
        /\ hs_entries = GenerateEmbeddings(LoadHtsData(file), file)
        /\ pc = "idle"
        /\ call = NoCall
        /\ ret = NoRet
        /\ count = NoCount
        /\ sample = <<>>
        /\ raised = FALSE
        /\ AuxInit

DatabaseAfterClassifyPopped(db) == IF db = <<>> THEN db ELSE Tail(db)

\* self.hs_database after classify: the sampler slices it (lines 125-129),
\* the prompt, the lookup and the fallback iterate it; nothing assigns to it
DatabaseAfterClassify(db) == db

EntriesAfterClassifyHsReversed(entries) ==
    [i \in 1..Len(entries) |-> entries[Len(entries) + 1 - i]]

\* hs_entries after classify_hs: the sort (line 38) is on the local list
\* similarities, the entries are only read
EntriesAfterClassifyHs(entries) == entries

\* LLMHSClassifier.classify(product_description, top_n); outcome is what the
\* text-generation service does if it is called
Classify(product_description, top_n, outcome) ==
    /\ pc = "idle"
    /\ pc' = "done"
    /\ call' = [op |-> "classify", product_description |-> product_description,
                top_n |-> top_n, outcome |-> outcome, desc_embedding |-> NoVector]
    /\ IF HasNoDatabase(hs_database)
       THEN /\ ret' = [results |-> <<>>, path |-> "no_database"]
            /\ count' = NoCount
            /\ sample' = <<>>
       ELSE IF HasNoClient(groq_client)
       THEN /\ ret' = [results |-> <<>>, path |-> "no_client"]
            /\ count' = NoCount
            /\ sample' = <<>>
       ELSE IF IsBlank(product_description)
       THEN /\ ret' = [results |-> <<>>, path |-> "blank"]
            /\ count' = NoCount
            /\ sample' = <<>>
       ELSE /\ sample' = CreateKnowledgeSample(hs_database)
            /\ IF outcome.kind = "raise"
               THEN /\ ret' = OnLLMError(product_description, top_n, hs_database)
                    /\ count' = [NoCount EXCEPT !.llm = LLMAttempts(outcome)]
               ELSE LET raw_response == Strip(outcome.text)
                        parsed == ParseLLMResponse(raw_response, outcome.json,
                                                   top_n, hs_database)
                    IN  /\ ret' = parsed
                        /\ count' = [llm |-> LLMAttempts(outcome),
                                     fallback |-> IF parsed.path = "fallback"
                                                  THEN 1 ELSE 0,
                                     embed |-> 0, load |-> 0]
    /\ raised' = FALSE
    /\ UNCHANGED aux
    /\ hs_database' = DatabaseAfterClassify(hs_database)
    /\ UNCHANGED <<hts_source, cache, groq_client, hs_entries>>

\* TradeAgent.classify_product(product_description, top_n); desc_embedding is
\* what the embedding model returns if it is called
ClassifyProduct(product_description, top_n, desc_embedding) ==
    /\ pc = "idle"
    /\ pc' = "done"
    /\ call' = [op |-> "classify_product",
                product_description |-> product_description, top_n |-> top_n,
                outcome |-> NoOutcome, desc_embedding |-> desc_embedding]
    /\ IF hs_entries = <<>>
       THEN /\ ret' = [results |-> <<>>, path |-> "no_entries"]
            /\ count' = NoCount
       ELSE /\ ret' = [results |-> ClassifyHs(desc_embedding, hs_entries, top_n),
                       path |-> "embedding"]
            /\ count' = [NoCount EXCEPT !.embed = 1]
    /\ raised' = FALSE
    /\ UNCHANGED aux
    /\ hs_entries' = EntriesAfterClassifyHs(hs_entries)
    /\ UNCHANGED <<hts_source, cache, hs_database, groq_client, sample>>

\* TradeAgent.get_hs_suggestions(product_description, top_n)
GetHsSuggestions(product_description, top_n, desc_embedding) ==
    /\ pc = "idle"
    /\ pc' = "done"
    /\ call' = [op |-> "get_hs_suggestions",
                product_description |-> product_description, top_n |-> top_n,
                outcome |-> NoOutcome, desc_embedding |-> desc_embedding]
    /\ IF hs_entries = <<>>
       THEN /\ ret' = [results |-> <<>>, path |-> "no_entries"]
            /\ count' = NoCount
       ELSE /\ ret' = [results |-> AsSuggestions(
                                       ClassifyHs(desc_embedding, hs_entries, top_n)),
                       path |-> "embedding"]
            /\ count' = [NoCount EXCEPT !.embed = 1]
    /\ raised' = FALSE
    /\ UNCHANGED aux
    /\ hs_entries' = EntriesAfterClassifyHs(hs_entries)
    /\ UNCHANGED <<hts_source, cache, hs_database, groq_client, sample>>

\* The caller takes the returned list; the engine keeps nothing of the call
Return ==
    /\ pc = "done"
    /\ pc' = "idle"
    /\ call' = NoCall
    /\ ret' = NoRet
    /\ count' = NoCount
    /\ sample' = <<>>
    /\ raised' = FALSE
    /\ UNCHANGED aux
    /\ UNCHANGED <<hts_source, cache, hs_database, groq_client, hs_entries>>

\* A caller invokes an entry point with any arguments, and the service it
\* calls may do anything it can do
CallClassify ==
    /\ pc = "idle"
    /\ \E d \in ProductDescriptions, n \in TopNs, o \in LLMOutcomes :
           Classify(d, n, o)

CallClassifyProduct ==
    /\ pc = "idle"
    /\ \E d \in ProductDescriptions, n \in TopNs, v \in Vectors :
           ClassifyProduct(d, n, v)

CallGetHsSuggestions ==
    /\ pc = "idle"
    /\ \E d \in ProductDescriptions, n \in TopNs, v \in Vectors :
           GetHsSuggestions(d, n, v)

Next == CallClassify \/ CallClassifyProduct \/ CallGetHsSuggestions \/ Return

Spec == Init /\ [][Next]_vars

(***************************************************************************)
(* The Knowledge Sampler on its own, over catalogs of up to MaxSampleLen   *)
(* records; record i of a catalog carries its source index as its code.    *)
(***************************************************************************)
SamplerCatalog(n) ==
    [i \in 1..n |-> [htsno |-> ToString(i - 1), description |-> <<"a">>]]

InitSampler ==
    \E n \in 0..MaxSampleLen :
        /\ hts_source = [status |-> "ok", records |-> SamplerCatalog(n)]
        /\ cache = NoCache
        /\ raised = FALSE
        /\ AuxInit
        /\ hs_database = SamplerCatalog(n)
        /\ groq_client = TRUE
        /\ hs_entries = <<>>
        /\ pc = "idle"
        /\ call = NoCall
        /\ ret = NoRet
        /\ count = NoCount
        /\ sample = <<>>

\* LLMHSClassifier._create_knowledge_sample()
Sample ==
    /\ pc = "idle"
    /\ pc' = "done"
    /\ call' = [NoCall EXCEPT !.op = "_create_knowledge_sample"]
    /\ sample' = CreateKnowledgeSample(hs_database)
    /\ ret' = NoRet
    /\ count' = NoCount
    /\ raised' = FALSE
    /\ UNCHANGED aux
    /\ UNCHANGED <<hts_source, cache, hs_database, groq_client, hs_entries>>

NextSampler == Sample \/ Return

SpecSampler == InitSampler /\ [][NextSampler]_vars

(***************************************************************************)
(* The same invocation made twice against a deterministic backend.         *)
(***************************************************************************)
\* The first invocation: any entry point, any arguments, any service outcome
FirstCall ==
    /\ prev = NoPrev
    /\ (CallClassify \/ CallClassifyProduct)

\* The caller takes the list and keeps it to compare
Remember ==
    /\ pc = "done"
    /\ prev = NoPrev
    /\ pc' = "idle"
    /\ prev' = [call |-> call, ret |-> ret]
    /\ call' = NoCall
    /\ ret' = NoRet
    /\ count' = NoCount
    /\ sample' = <<>>
    /\ raised' = FALSE
    /\ UNCHANGED <<hts_source, cache, hs_database, groq_client, hs_entries>>
    /\ UNCHANGED <<prompt, form, auth_vars, race_vars, singleton_vars>>

\* The same entry point is invoked again with the same arguments; the
\* backend, being deterministic, answers the same prompt or text as before
Repeat ==
    /\ pc = "idle"
    /\ prev # NoPrev
    /\ \/ /\ prev.call.op = "classify"
          /\ Classify(prev.call.product_description, prev.call.top_n,
                      prev.call.outcome)
       \/ /\ prev.call.op = "classify_product"
          /\ ClassifyProduct(prev.call.product_description, prev.call.top_n,
                             prev.call.desc_embedding)

NextTwice == FirstCall \/ Remember \/ Repeat

SpecTwice == Init /\ [][NextTwice]_vars

(***************************************************************************)
(* The Fallback Matcher on its own: longer descriptions and texts, so that *)
(* overlaps above five words occur.                                        *)
(***************************************************************************)
\* Catalog records for the Fallback Matcher: upper case, a six- and a
\* seven-word description, an empty one and one that shares no word
FallbackRecords ==
    { [htsno |-> "0101", description |-> <<"a">>],
      [htsno |-> "0202", description |-> <<"a", " ", "B">>],
      [htsno |-> "0303",
       description |-> <<"a", " ", "b", " ", "c", " ", "d", " ", "e", " ", "f">>],
      [htsno |-> "0404",
       description |-> <<"a", " ", "b", " ", "c", " ", "d", " ", "e", " ", "f",
                         " ", "g">>],
      [htsno |-> "0505", description |-> <<>>],
      [htsno |-> "0606", description |-> <<"z">>] }

FallbackCatalogs == UNION {[1..n -> FallbackRecords] : n \in 0..MaxFallbackLen}

\* Texts handed to the Fallback Matcher: empty, upper case, a repeated word
\* around a double space, six and seven distinct words, and a foreign word
FallbackTexts ==
    { <<>>,
      <<"A">>,
      <<"b", " ", " ", "a", " ", "b">>,
      <<"a", " ", "b", " ", "c", " ", "d", " ", "e", " ", "f">>,
      <<"g", " ", "f", " ", "e", " ", "d", " ", "c", " ", "b", " ", "a">>,
      <<"q">> }

InitFallback ==
    \E db \in FallbackCatalogs :
        /\ hts_source = [status |-> "ok", records |-> db]
        /\ cache = NoCache
        /\ raised = FALSE
        /\ AuxInit
        /\ hs_database = db
        /\ groq_client = TRUE
        /\ hs_entries = <<>>
        /\ pc = "idle"
        /\ call = NoCall
        /\ ret = NoRet
        /\ count = NoCount
        /\ sample = <<>>

\* LLMHSClassifier._fallback_keyword_match(product_desc, top_n)
FallbackMatch(product_desc, top_n) ==
    /\ pc = "idle"
    /\ pc' = "done"
    /\ call' = [NoCall EXCEPT !.op = "_fallback_keyword_match",
                              !.product_description = product_desc,
                              !.top_n = top_n]
    /\ ret' = [results |-> FallbackKeywordMatch(product_desc, top_n, hs_database),
               path |-> "fallback"]
    /\ count' = [NoCount EXCEPT !.fallback = 1]
    /\ sample' = <<>>
    /\ raised' = FALSE
    /\ UNCHANGED aux
    /\ UNCHANGED <<hts_source, cache, hs_database, groq_client, hs_entries>>

CallFallbackMatch ==
    /\ pc = "idle"
    /\ \E t \in FallbackTexts, n \in TopNs : FallbackMatch(t, n)

NextFallback == CallFallbackMatch \/ Return

SpecFallback == InitFallback /\ [][NextFallback]_vars

(***************************************************************************)
(* Construction of the two engines from the HTS file and the cache file.   *)
(***************************************************************************)
\* The HTS JSON file as open() and json.load find it
HtsSources ==
    {[status |-> "ok", records |-> file] : file \in HtsFiles}
    \cup {[status |-> "missing", records |-> <<>>],
          [status |-> "malformed", records |-> <<>>]}

CacheExistsNever(c) == FALSE

\* os.path.exists(self.hs_data_cache_path)
CacheExists(c) == c.exists

\* A process starts: no engine is constructed yet, no cache file is written
InitProcess ==
    /\ hts_source \in HtsSources
    /\ cache = NoCache
    /\ hs_database = <<>>
    /\ groq_client = FALSE
    /\ hs_entries = <<>>
    /\ pc = "idle"
    /\ call = NoCall
    /\ ret = NoRet
    /\ count = NoCount
    /\ sample = <<>>
    /\ raised = FALSE
    /\ AuxInit

\* LLMHSClassifier(): _load_hts_database returns json.load's list, or [] on
\* FileNotFoundError and on any other exception; api_key is GROQ_API_KEY set
ConstructClassifier(api_key) ==
    /\ pc = "idle"
    /\ pc' = "done"
    /\ call' = [NoCall EXCEPT !.op = "LLMHSClassifier"]
    /\ hs_database' = IF hts_source.status = "ok"
                      THEN LoadHtsDatabase(hts_source.records)
                      ELSE <<>>
    /\ groq_client' = api_key
    /\ ret' = [results |-> <<>>,
               path |-> IF hts_source.status = "ok" THEN "loaded"
                        ELSE IF hts_source.status = "missing" THEN "not_found"
                        ELSE "load_error"]
    /\ count' = [NoCount EXCEPT !.load = 1]
    /\ raised' = FALSE
    /\ UNCHANGED aux
    /\ UNCHANGED <<hts_source, cache, hs_entries, sample>>

\* TradeAgent(): _load_hs_data reads the cache if the file exists, else
\* loads, embeds and writes the cache; only FileNotFoundError is handled
CacheAfterNotFoundWritten(c) == [exists |-> TRUE, entries |-> <<>>]

\* the cache file after load_hts_data raised FileNotFoundError: lines 44-45
\* are skipped, the except block (lines 47-49) opens no file
CacheAfterNotFound(c) == c

ConstructTradeAgent ==
    /\ pc = "idle"
    /\ pc' = "done"
    /\ call' = [NoCall EXCEPT !.op = "TradeAgent"]
    /\ IF CacheExists(cache)
       THEN /\ hs_entries' = cache.entries
            /\ ret' = [results |-> <<>>, path |-> "cache"]
            /\ count' = NoCount
            /\ raised' = FALSE
            /\ UNCHANGED cache
       ELSE IF hts_source.status = "ok"
       THEN LET entries == GenerateEmbeddings(LoadHtsData(hts_source.records),
                                              hts_source.records)
            IN  /\ hs_entries' = entries
                /\ cache' = [exists |-> TRUE, entries |-> entries]
                /\ ret' = [results |-> <<>>, path |-> "built"]
                /\ count' = [NoCount EXCEPT !.load = 1, !.embed = 1]
                /\ raised' = FALSE
       ELSE IF hts_source.status = "missing"
       THEN /\ hs_entries' = <<>>
            /\ ret' = [results |-> <<>>, path |-> "not_found"]
            /\ count' = [NoCount EXCEPT !.load = 1]
            /\ raised' = FALSE
            /\ cache' = CacheAfterNotFound(cache)
       ELSE /\ hs_entries' = <<>>
            /\ ret' = [results |-> <<>>, path |-> "raised"]
            /\ count' = [NoCount EXCEPT !.load = 1]
            /\ raised' = TRUE
            /\ UNCHANGED cache
    /\ UNCHANGED aux
    /\ UNCHANGED <<hts_source, hs_database, groq_client, sample>>

CallConstructClassifier ==
    /\ pc = "idle"
    /\ \E api_key \in BOOLEAN : ConstructClassifier(api_key)

\* Between two constructions the HTS file is replaced, removed or corrupted
SourceChanges ==
    /\ pc = "idle"
    /\ hts_source' \in HtsSources \ {hts_source}
    /\ UNCHANGED aux
    /\ UNCHANGED <<cache, hs_database, groq_client, hs_entries,
                   pc, call, ret, count, sample, raised>>

\* The process that constructed the engine ends; the files stay
Exit ==
    /\ pc = "done"
    /\ pc' = "idle"
    /\ hs_database' = <<>>
    /\ groq_client' = FALSE
    /\ hs_entries' = <<>>
    /\ call' = NoCall
    /\ ret' = NoRet
    /\ count' = NoCount
    /\ sample' = <<>>
    /\ raised' = FALSE
    /\ UNCHANGED aux
    /\ UNCHANGED <<hts_source, cache>>

NextInit == CallConstructClassifier \/ ConstructTradeAgent \/ SourceChanges \/ Exit

SpecInit == InitProcess /\ [][NextInit]_vars

(***************************************************************************)
(* Form filling with HS auto-classification (src/agent.py fill_form,       *)
(* src/trade_agent.py TradeAgent.fill_trade_form), called without db_data. *)
(* A dict is the sequence of its [key, value] items in insertion order.    *)
(***************************************************************************)
\* Field names of the templates
FieldNames == {"product_description", "description", "hs_code", "HS_Code_2"}

\* str.lower() of a field name
KeyLower(key) == IF key = "HS_Code_2" THEN "hs_code_2" ELSE key

\* "word in key.lower()" for the words the code looks for
KeyContains(key, word) ==
    <<KeyLower(key), word>> \in
        { <<"product_description", "product">>, <<"product_description", "desc">>,
          <<"description", "desc">>,
          <<"hs_code", "hs">>, <<"hs_code", "code">>,
          <<"hs_code_2", "hs">>, <<"hs_code_2", "code">> }

\* the values the extraction puts in a field
FieldValues == {<<>>, <<" ">>, <<"a">>}

\* what _call_openai_fill returns: one item per template key, in template
\* order, the keys of a template being distinct
ExtractedResults ==
    UNION { { r \in [1..n -> [key : FieldNames, value : FieldValues]] :
                \A i, j \in 1..n : i # j => r[i].key # r[j].key } :
            n \in 0..MaxFields }

\* what get_classifier().classify(product_desc, top_n=1) does: it raises, or
\* returns a list of at most one result
ClassifierOutcomes ==
    { [kind |-> "raise", results |-> <<>>],
      [kind |-> "list",  results |-> <<>>],
      [kind |-> "list",
       results |-> <<[hs_code |-> "0101", description |-> <<"a">>,
                      confidence |-> 9, reasoning |-> "r"]>>] }

\* what model.encode does inside classify_hs: it raises, or returns a vector
EmbeddingOutcomes ==
    {[kind |-> "raise", vector |-> NoVector]}
    \cup {[kind |-> "vector", vector |-> v] : v \in Vectors}

\* dict lookups and assignment
DictHas(d, key) == \E i \in 1..Len(d) : d[i].key = key

DictGet(d, key) == d[CHOOSE i \in 1..Len(d) : d[i].key = key].value

DictSet(d, key, value) ==
    IF DictHas(d, key)
    THEN [i \in 1..Len(d) |-> IF d[i].key = key
                              THEN [key |-> key, value |-> value] ELSE d[i]]
    ELSE Append(d, [key |-> key, value |-> value])

\* agent.py lines 150 and 153: the key names a product description
IsProductDescKey(key) ==
    \/ KeyContains(key, "product") /\ KeyContains(key, "desc")
    \/ KeyLower(key) \in {"description", "product_name", "goods_description"}

\* agent.py lines 148-155: the value of the first such key, None (<<>>) if
\* there is none
ProductDescOf(result) ==
    LET hits == {i \in 1..Len(result) : IsProductDescKey(result[i].key)}
    IN  IF hits = {} THEN <<>>
        ELSE result[CHOOSE i \in hits : \A j \in hits : i <= j].value

\* agent.py lines 143-174, the try block of fill_form.  classify returns a
\* list, so classification.get('suggestions') (line 162) raises
\* AttributeError whenever line 160 has returned; like an exception of the
\* classifier itself it is caught at line 172 and result is left as it was
AutoClassify(result, classification) ==
    LET product_desc == ProductDescOf(result)
    IN  IF product_desc = <<>> \/ Strip(product_desc) = <<>>
        THEN result
        ELSE IF classification.kind = "raise"
        THEN result
        ELSE result

\* trade_agent.py lines 91-95: the first key of the list with a truthy value
TradeProductDesc(filled) ==
    LET keys == <<"product_description", "description", "description_of_goods",
                  "product_name">>
        hits == {k \in 1..Len(keys) :
                    DictHas(filled, keys[k]) /\ DictGet(filled, keys[k]) # <<>>}
    IN  IF hits = {} THEN <<>>
        ELSE DictGet(filled, keys[CHOOSE k \in hits : \A j \in hits : k <= j])

\* trade_agent.py lines 100-110: what a non-empty hs_results adds to filled
WithClassification(filled, hs_results) ==
    IF hs_results = <<>> THEN filled
    ELSE LET best_match == hs_results[1]
             with_code == IF DictHas(filled, "hs_code")
                             /\ DictGet(filled, "hs_code") = <<>>
                          THEN DictSet(filled, "hs_code", <<best_match[1]>>)
                          ELSE filled
         IN  DictSet(with_code, "_hs_classification",
                     <<best_match[1], best_match[2], best_match[3]>>)

\* A TradeAgent with an empty catalog or with a catalog of two entries
InitForm ==
    /\ hts_source \in
           { [status |-> "ok", records |-> <<>>],
             [status |-> "ok",
              records |-> <<[htsno |-> "0101", description |-> <<"a">>,
                             embedding |-> <<5, 0>>],
                            [htsno |-> "0202", description |-> <<"a", " ", "B">>,
                             embedding |-> <<3, 4>>]>>] }
    /\ hs_entries = GenerateEmbeddings(LoadHtsData(hts_source.records),
                                       hts_source.records)
    /\ cache = [exists |-> TRUE, entries |-> hs_entries]
    /\ hs_database = LoadHtsDatabase(hts_source.records)
    /\ groq_client = TRUE
    /\ pc = "idle"
    /\ call = NoCall
    /\ ret = NoRet
    /\ count = NoCount
    /\ sample = <<>>
    /\ raised = FALSE
    /\ AuxInit

\* agent.fill_form(template, prompt, auto_classify_hs=...): extracted is
\* whether _call_openai_fill returned (it raises RuntimeError otherwise),
\* result what it returned, classification what the classifier does if called
FillForm(result, extracted, auto_classify_hs, classification) ==
    /\ pc = "idle"
    /\ pc' = "done"
    /\ call' = [NoCall EXCEPT !.op = "fill_form"]
    /\ form' = [op |-> "fill_form", result |-> result, extracted |-> extracted,
                auto_classify_hs |-> auto_classify_hs,
                classification |-> classification,
                embedding |-> [kind |-> "none", vector |-> NoVector]]
    /\ IF ~extracted
       THEN /\ ret' = [results |-> <<>>, path |-> "raised"]
            /\ raised' = TRUE
       ELSE /\ ret' = [results |-> IF auto_classify_hs
                                   THEN AutoClassify(result, classification)
                                   ELSE result,
                       path |-> "filled"]
            /\ raised' = FALSE
    /\ UNCHANGED <<hts_source, cache, hs_database, groq_client, hs_entries,
                   count, sample>>
    /\ UNCHANGED <<prev, prompt, auth_vars, race_vars, singleton_vars>>

\* TradeAgent.fill_trade_form(template, prompt, auto_classify_hs=...):
\* embedding is what the embedding model does if classify_hs is reached
FillTradeForm(result, extracted, auto_classify_hs, embedding) ==
    /\ pc = "idle"
    /\ pc' = "done"
    /\ call' = [NoCall EXCEPT !.op = "fill_trade_form"]
    /\ form' = [op |-> "fill_trade_form", result |-> result,
                extracted |-> extracted,
                auto_classify_hs |-> auto_classify_hs,
                classification |-> [kind |-> "none", results |-> <<>>],
                embedding |-> embedding]
    /\ IF ~extracted
       THEN /\ ret' = [results |-> <<>>, path |-> "raised"]
            /\ raised' = TRUE
            /\ count' = NoCount
       ELSE LET filled == result
                product_desc == TradeProductDesc(filled)
            IN  IF auto_classify_hs /\ hs_entries # <<>> /\ product_desc # <<>>
                THEN IF embedding.kind = "raise"
                     THEN /\ ret' = [results |-> <<>>, path |-> "raised"]
                          /\ raised' = TRUE
                          /\ count' = [NoCount EXCEPT !.embed = 1]
                     ELSE /\ ret' = [results |->
                                        WithClassification(filled,
                                            ClassifyHs(embedding.vector,
                                                       hs_entries, 1)),
                                     path |-> "filled"]
                          /\ raised' = FALSE
                          /\ count' = [NoCount EXCEPT !.embed = 1]
                ELSE /\ ret' = [results |-> filled, path |-> "filled"]
                     /\ raised' = FALSE
                     /\ count' = NoCount
    /\ UNCHANGED <<hts_source, cache, hs_database, groq_client, hs_entries,
                   sample>>
    /\ UNCHANGED <<prev, prompt, auth_vars, race_vars, singleton_vars>>

CallFillForm ==
    /\ pc = "idle"
    /\ \E r \in ExtractedResults, e \in BOOLEAN, a \in BOOLEAN,
          c \in ClassifierOutcomes : FillForm(r, e, a, c)

CallFillTradeForm ==
    /\ pc = "idle"
    /\ \E r \in ExtractedResults, e \in BOOLEAN, a \in BOOLEAN,
          v \in EmbeddingOutcomes : FillTradeForm(r, e, a, v)

\* The caller takes the filled form
ReturnForm ==
    /\ pc = "done"
    /\ pc' = "idle"
    /\ call' = NoCall
    /\ form' = NoForm
    /\ ret' = NoRet
    /\ count' = NoCount
    /\ raised' = FALSE
    /\ UNCHANGED <<hts_source, cache, hs_database, groq_client, hs_entries,
                   sample>>
    /\ UNCHANGED <<prev, prompt, auth_vars, race_vars, singleton_vars>>

NextForm == CallFillForm \/ CallFillTradeForm \/ ReturnForm

SpecForm == InitForm /\ [][NextForm]_vars

(***************************************************************************)
(* Authentication of the web application (src/auth.py, src/crm_app.py).    *)
(* One request is served at a time; a token is its payload: the user id    *)
(* and the hour of issue, and whether it carries the server's signature.   *)
(***************************************************************************)
PASSWORD_MIN_LENGTH == 8

JWT_EXPIRATION_HOURS == 24

IsUpperChar(c) == c \in {"A", "B", "C", "D", "E", "F", "G"}

IsLowerChar(c) == c \in {"a", "b", "c", "d", "e", "f", "g", "h"}

IsDigitChar(c) == c \in {"1"}

ValidatePasswordNoDigitCheck(password) ==
    /\ password # <<>>
    /\ Len(password) >= PASSWORD_MIN_LENGTH
    /\ \E i \in 1..Len(password) : IsUpperChar(password[i])
    /\ \E i \in 1..Len(password) : IsLowerChar(password[i])

\* validate_password(password)[0]
ValidatePassword(password) ==
    IF password = <<>> THEN FALSE
    ELSE IF Len(password) < PASSWORD_MIN_LENGTH THEN FALSE
    ELSE IF ~\E i \in 1..Len(password) : IsUpperChar(password[i]) THEN FALSE
    ELSE IF ~\E i \in 1..Len(password) : IsLowerChar(password[i]) THEN FALSE
    ELSE IF ~\E i \in 1..Len(password) : IsDigitChar(password[i]) THEN FALSE
    ELSE TRUE

Emails == {"e1", "e2"}

Usernames == {"u1", "u2"}

\* one acceptable password; one too short, one without an upper-case letter,
\* one without a lower-case letter, one without a digit; the empty one
Passwords ==
    { <<"A", "b", "c", "d", "e", "f", "g", "1">>,
      <<"A", "b", "c", "d", "e", "f", "1">>,
      <<"a", "b", "c", "d", "e", "f", "g", "1">>,
      <<"A", "B", "C", "D", "E", "F", "G", "1">>,
      <<"A", "b", "c", "d", "e", "f", "g", "h">>,
      <<>> }

\* request.get_json() of a registration; complete: all required fields
RegisterRequests ==
    {[NoRequest EXCEPT !.email = e, !.username = u, !.password = p,
                       !.complete = c] :
        e \in Emails, u \in Usernames, p \in Passwords, c \in BOOLEAN}

LoginRequests ==
    {[NoRequest EXCEPT !.email = e, !.password = p, !.complete = TRUE] :
        e \in Emails \cup {""},
        p \in {<<"A", "b", "c", "d", "e", "f", "g", "1">>,
               <<"A", "b", "c", "d", "e", "f", "1">>, <<>>}}

\* a token somebody signed without the server's key
ForgedToken == [user_id |-> 1, iat |-> 0, signed |-> FALSE]

\* generate_token(user): the payload, signed
GenerateToken(user_id) == [user_id |-> user_id, iat |-> now, signed |-> TRUE]

\* User.query.filter_by(email=...).first() / filter_by(username=...).first()
EmailRegistered(email) == \E i \in 1..Len(users) : users[i].email = email

UsernameTaken(username) == \E i \in 1..Len(users) : users[i].username = username

UserByEmail(email) == CHOOSE i \in 1..Len(users) : users[i].email = email

IsBlacklistedNever(token, blacklist) == FALSE

\* "if token in token_blacklist"
IsBlacklisted(token, blacklist) == token \in blacklist

\* decode_token(token) returns a payload: not blacklisted, signature valid,
\* not expired (jwt raises ExpiredSignatureError once exp <= now)
DecodeToken(token) ==
    /\ ~IsBlacklisted(token, token_blacklist)
    /\ token.signed
    /\ now < token.iat + JWT_EXPIRATION_HOURS

\* login_required lets the request through to the handler
Authenticated(token) ==
    /\ token # NoToken
    /\ DecodeToken(token)
    /\ token.user_id \in 1..Len(users)
    /\ users[token.user_id].is_active

InitAuth ==
    /\ hts_source = [status |-> "ok", records |-> <<>>]
    /\ cache = NoCache
    /\ hs_database = <<>>
    /\ groq_client = FALSE
    /\ hs_entries = <<>>
    /\ pc = "idle"
    /\ call = NoCall
    /\ ret = NoRet
    /\ count = NoCount
    /\ sample = <<>>
    /\ raised = FALSE
    /\ AuxInit

\* POST /api/auth/register
Register(data) ==
    /\ response = NoResponse
    /\ Cardinality(issued) < MaxIssued
    /\ IF ~data.complete
       THEN /\ response' = [NoResponse EXCEPT !.endpoint = "register",
                                              !.request = data, !.status = 400]
            /\ UNCHANGED <<users, issued>>
       ELSE IF ~ValidatePassword(data.password)
       THEN /\ response' = [NoResponse EXCEPT !.endpoint = "register",
                                              !.request = data, !.status = 400]
            /\ UNCHANGED <<users, issued>>
       ELSE IF EmailRegistered(data.email)
       THEN /\ response' = [NoResponse EXCEPT !.endpoint = "register",
                                              !.request = data, !.status = 409]
            /\ UNCHANGED <<users, issued>>
       ELSE IF UsernameTaken(data.username)
       THEN /\ response' = [NoResponse EXCEPT !.endpoint = "register",
                                              !.request = data, !.status = 409]
            /\ UNCHANGED <<users, issued>>
       ELSE /\ users' = Append(users, [email |-> data.email,
                                       username |-> data.username,
                                       password |-> data.password,
                                       is_active |-> TRUE])
            /\ issued' = issued \cup {GenerateToken(Len(users) + 1)}
            /\ response' = [NoResponse EXCEPT
                               !.endpoint = "register", !.request = data,
                               !.status = 201,
                               !.token = GenerateToken(Len(users) + 1),
                               !.handler_ran = TRUE]
    /\ UNCHANGED <<token_blacklist, now>>
    /\ UNCHANGED <<engine_vars, prev, prompt, form, race_vars, singleton_vars>>

\* POST /api/auth/login
Login(data) ==
    /\ response = NoResponse
    /\ Cardinality(issued) < MaxIssued
    /\ IF data.email = "" \/ data.password = <<>>
       THEN /\ response' = [NoResponse EXCEPT !.endpoint = "login",
                                              !.request = data, !.status = 400]
            /\ UNCHANGED issued
       ELSE IF ~EmailRegistered(data.email)
       THEN /\ response' = [NoResponse EXCEPT !.endpoint = "login",
                                              !.request = data, !.status = 401]
            /\ UNCHANGED issued
       ELSE IF users[UserByEmail(data.email)].password # data.password
       THEN /\ response' = [NoResponse EXCEPT !.endpoint = "login",
                                              !.request = data, !.status = 401]
            /\ UNCHANGED issued
       ELSE IF ~users[UserByEmail(data.email)].is_active
       THEN /\ response' = [NoResponse EXCEPT !.endpoint = "login",
                                              !.request = data, !.status = 403]
            /\ UNCHANGED issued
       ELSE /\ issued' = issued \cup {GenerateToken(UserByEmail(data.email))}
            /\ response' = [NoResponse EXCEPT
                               !.endpoint = "login", !.request = data,
                               !.status = 200,
                               !.token = GenerateToken(UserByEmail(data.email)),
                               !.handler_ran = TRUE]
    /\ UNCHANGED <<users, token_blacklist, now>>
    /\ UNCHANGED <<engine_vars, prev, prompt, form, race_vars, singleton_vars>>

\* GET /api/auth/me, a login_required endpoint; NoToken: no Bearer header
GetCurrentUser(token) ==
    /\ response = NoResponse
    /\ response' = [NoResponse EXCEPT
                       !.endpoint = "me",
                       !.request = [NoRequest EXCEPT !.token = token],
                       !.status = IF Authenticated(token) THEN 200 ELSE 401,
                       !.handler_ran = Authenticated(token)]
    /\ UNCHANGED <<users, token_blacklist, issued, now>>
    /\ UNCHANGED <<engine_vars, prev, prompt, form, race_vars, singleton_vars>>

\* POST /api/auth/logout, a login_required endpoint
Logout(token) ==
    /\ response = NoResponse
    /\ IF Authenticated(token)
       THEN /\ token_blacklist' = token_blacklist \cup {token}
            /\ response' = [NoResponse EXCEPT
                               !.endpoint = "logout",
                               !.request = [NoRequest EXCEPT !.token = token],
                               !.status = 200, !.handler_ran = TRUE]
       ELSE /\ UNCHANGED token_blacklist
            /\ response' = [NoResponse EXCEPT
                               !.endpoint = "logout",
                               !.request = [NoRequest EXCEPT !.token = token],
                               !.status = 401]
    /\ UNCHANGED <<users, issued, now>>
    /\ UNCHANGED <<engine_vars, prev, prompt, form, race_vars, singleton_vars>>

\* The client has its response
Respond ==
    /\ response # NoResponse
    /\ response' = NoResponse
    /\ UNCHANGED <<users, token_blacklist, issued, now>>
    /\ UNCHANGED <<engine_vars, prev, prompt, form, race_vars, singleton_vars>>

\* Half the lifetime of a token passes between two requests
Tick ==
    /\ response = NoResponse
    /\ now + JWT_EXPIRATION_HOURS \div 2 <= MaxNow
    /\ now' = now + JWT_EXPIRATION_HOURS \div 2
    /\ UNCHANGED <<users, token_blacklist, issued, response>>
    /\ UNCHANGED <<engine_vars, prev, prompt, form, race_vars, singleton_vars>>

PostRegister ==
    /\ response = NoResponse
    /\ \E data \in RegisterRequests : Register(data)

PostLogin ==
    /\ response = NoResponse
    /\ \E data \in LoginRequests : Login(data)

GetMe ==
    /\ response = NoResponse
    /\ \E token \in issued \cup {ForgedToken, NoToken} : GetCurrentUser(token)

PostLogout ==
    /\ response = NoResponse
    /\ \E token \in issued \cup {ForgedToken, NoToken} : Logout(token)

NextAuth == PostRegister \/ PostLogin \/ GetMe \/ PostLogout \/ Respond \/ Tick

SpecAuth == InitAuth /\ [][NextAuth]_vars

(***************************************************************************)
(* One classify invocation, statement by statement.  pc is the phase:      *)
(* "sampling" (line 82 has run), "prompt_built" (lines 85-86),             *)
(* "model_called" (the request of line 90 is out), "parsed_ok" or          *)
(* "parse_failed" (the try block of _parse_llm_response ended or raised),  *)
(* "fallback_invoked" (line 221), "done" (classify has returned).  The     *)
(* specification follows one invocation from its call to its return.      *)
(***************************************************************************)
\* Outcomes of the text-generation call with at most one match in the answer
PhaseOutcomes ==
    {o \in LLMOutcomes : Len(o.json.items) <= 1}

InitPhases ==
    \E file \in {f \in HtsFiles : Len(f) <= 1} :
        /\ hts_source = [status |-> "ok", records |-> file]
        /\ cache = NoCache
        /\ hs_database = LoadHtsDatabase(file)
        /\ groq_client \in BOOLEAN
        /\ hs_entries = <<>>
        /\ pc = "idle"
        /\ call = NoCall
        /\ ret = NoRet
        /\ count = NoCount
        /\ sample = <<>>
        /\ raised = FALSE
        /\ AuxInit

\* lines 63-82: the three early returns, then the sample
BeginClassify(product_description, top_n, outcome) ==
    /\ pc = "idle"
    /\ call' = [op |-> "classify", product_description |-> product_description,
                top_n |-> top_n, outcome |-> outcome, desc_embedding |-> NoVector]
    /\ IF HasNoDatabase(hs_database)
       THEN /\ pc' = "done"
            /\ ret' = [results |-> <<>>, path |-> "no_database"]
            /\ sample' = <<>>
       ELSE IF HasNoClient(groq_client)
       THEN /\ pc' = "done"
            /\ ret' = [results |-> <<>>, path |-> "no_client"]
            /\ sample' = <<>>
       ELSE IF IsBlank(product_description)
       THEN /\ pc' = "done"
            /\ ret' = [results |-> <<>>, path |-> "blank"]
            /\ sample' = <<>>
       ELSE /\ pc' = "sampling"
            /\ ret' = NoRet
            /\ sample' = CreateKnowledgeSample(hs_database)
    /\ UNCHANGED <<hts_source, cache, hs_database, groq_client, hs_entries,
                   count, raised>>
    /\ UNCHANGED aux

\* lines 85-86: the prompts, the user prompt from the sample
BuildPrompt ==
    /\ pc = "sampling"
    /\ pc' = "prompt_built"
    /\ prompt' = [sample |-> sample,
                  product_description |-> call.product_description,
                  built |-> TRUE]
    /\ UNCHANGED <<hts_source, cache, hs_database, groq_client, hs_entries,
                   call, ret, count, sample, raised>>
    /\ UNCHANGED <<form, prev, auth_vars, race_vars, singleton_vars>>

\* line 90: the request goes out with the prompts
CallModel ==
    /\ pc = "prompt_built"
    /\ pc' = "model_called"
    /\ count' = [count EXCEPT !.llm = LLMAttempts(call.outcome)]
    /\ UNCHANGED <<hts_source, cache, hs_database, groq_client, hs_entries,
                   call, ret, sample, raised>>
    /\ UNCHANGED aux

\* lines 114-116: the call raised
ModelRaises ==
    /\ pc = "model_called"
    /\ call.outcome.kind = "raise"
    /\ pc' = "done"
    /\ ret' = OnLLMError(call.product_description, call.top_n, hs_database)
    /\ UNCHANGED <<hts_source, cache, hs_database, groq_client, hs_entries,
                   call, count, sample, raised>>
    /\ UNCHANGED aux

PhaseAfterResponseSwapped(path) ==
    IF path = "fallback" THEN "parsed_ok" ELSE "parse_failed"

\* _parse_llm_response: its try block ends (line 216) or raises (line 218)
PhaseAfterResponse(path) ==
    IF path = "fallback" THEN "parse_failed" ELSE "parsed_ok"

\* lines 100-103 and 184-218: the call returned and the text is parsed
ModelReturns ==
    /\ pc = "model_called"
    /\ call.outcome.kind = "text"
    /\ LET raw_response == Strip(call.outcome.text)
           parsed == ParseLLMResponse(raw_response, call.outcome.json,
                                      call.top_n, hs_database)
       IN  /\ pc' = PhaseAfterResponse(parsed.path)
           /\ ret' = IF parsed.path = "parsed" THEN parsed ELSE NoRet
    /\ UNCHANGED <<hts_source, cache, hs_database, groq_client, hs_entries,
                   call, count, sample, raised>>
    /\ UNCHANGED aux

\* line 221: the keyword match on the response text
InvokeFallback ==
    /\ pc = "parse_failed"
    /\ pc' = "fallback_invoked"
    /\ ret' = [path |-> "fallback",
               results |-> FallbackKeywordMatch(Strip(call.outcome.text),
                                                call.top_n, hs_database)]
    /\ count' = [count EXCEPT !.fallback = 1]
    /\ UNCHANGED <<hts_source, cache, hs_database, groq_client, hs_entries,
                   call, sample, raised>>
    /\ UNCHANGED aux

\* line 112: return results
FinishClassify ==
    /\ pc \in {"parsed_ok", "fallback_invoked"}
    /\ pc' = "done"
    /\ UNCHANGED <<hts_source, cache, hs_database, groq_client, hs_entries,
                   call, ret, count, sample, raised>>
    /\ UNCHANGED aux

CallBeginClassify ==
    /\ pc = "idle"
    /\ \E d \in ProductDescriptions, n \in TopNs, o \in PhaseOutcomes :
           BeginClassify(d, n, o)

NextPhases ==
    \/ CallBeginClassify
    \/ BuildPrompt
    \/ CallModel
    \/ ModelRaises
    \/ ModelReturns
    \/ InvokeFallback
    \/ FinishClassify

\* classify is sequential code: an invocation in progress takes its next step
SpecPhases ==
    /\ InitPhases
    /\ [][NextPhases]_vars
    /\ WF_vars(BuildPrompt)
    /\ WF_vars(CallModel)
    /\ WF_vars(ModelRaises)
    /\ WF_vars(ModelReturns)
    /\ WF_vars(InvokeFallback)
    /\ WF_vars(FinishClassify)

(***************************************************************************)
(* Several TradeAgent initialisations at once (request threads or worker   *)
(* processes) over one cache path, _load_hs_data statement by statement.   *)
(* The cache file is the sequence of chunks on disk; pickle.dump hands the *)
(* stream to the file in one or more writes, each at the writer's own      *)
(* offset.  agents[t] is initialisation t: its position, its hs_entries,   *)
(* the number of chunks it has written and whether it raised.              *)
(***************************************************************************)
NoEntry == [htsno |-> "", description |-> <<>>, embedding |-> NoVector]

ZeroChunk == [kind |-> "zero", entry |-> NoEntry]

\* pickle.dump(entries): the entries, then the STOP opcode
Pickle(entries) ==
    [i \in 1..Len(entries) |-> [kind |-> "entry", entry |-> entries[i]]]
    \o <<[kind |-> "stop", entry |-> NoEntry]>>

\* pickle.load succeeds on a stream that runs to its STOP opcode
IsCompletePickle(content) ==
    /\ content # <<>>
    /\ content[Len(content)].kind = "stop"
    /\ \A i \in 1..(Len(content) - 1) : content[i].kind = "entry"

Unpickle(content) ==
    [i \in 1..(Len(content) - 1) |-> content[i].entry]

\* write(chunks) at offset pos of a file holding content: a gap left by a
\* truncation reads as zero bytes
WriteAt(content, pos, chunks) ==
    LET end == pos + Len(chunks)
        size == IF Len(content) > end THEN Len(content) ELSE end
    IN  [i \in 1..size |->
            IF i > pos /\ i <= end THEN chunks[i - pos]
            ELSE IF i <= Len(content) THEN content[i]
            ELSE ZeroChunk]

NewAgent == [pc |-> "start", hs_entries |-> <<>>, pos |-> 0, raised |-> FALSE]

RaceSources ==
    {src \in HtsSources : Len(src.records) <= 1}

InitRace ==
    /\ hts_source \in RaceSources
    /\ cache = NoCache
    /\ hs_database = <<>>
    /\ groq_client = FALSE
    /\ hs_entries = <<>>
    /\ pc = "idle"
    /\ call = NoCall
    /\ ret = NoRet
    /\ count = NoCount
    /\ sample = <<>>
    /\ raised = FALSE
    /\ AuxInit

race_frame ==
    <<engine_vars, prev, prompt, form, auth_vars, singleton_vars>>

\* TradeAgent() is called: __init__ reaches _load_hs_data (line 28)
StartInit ==
    /\ Len(agents) < MaxAgents
    /\ agents' = Append(agents, NewAgent)
    /\ UNCHANGED cache_file
    /\ UNCHANGED race_frame

\* line 32: os.path.exists(self.hs_data_cache_path)
CheckCacheExists(t) ==
    /\ agents[t].pc = "start"
    /\ agents' = [agents EXCEPT ![t].pc =
                      IF cache_file.exists THEN "loading" ELSE "building"]
    /\ UNCHANGED cache_file
    /\ UNCHANGED race_frame

\* lines 34-35: open(..., 'rb') and pickle.load, which raises on a stream
\* that is empty, truncated or holds zero bytes
LoadCache(t) ==
    /\ agents[t].pc = "loading"
    /\ agents' = [agents EXCEPT ![t] =
                      IF IsCompletePickle(cache_file.content)
                      THEN [@ EXCEPT !.pc = "done",
                                     !.hs_entries = Unpickle(cache_file.content)]
                      ELSE [@ EXCEPT !.pc = "failed", !.raised = TRUE]]
    /\ UNCHANGED cache_file
    /\ UNCHANGED race_frame

\* lines 39-41 and 47-49: load_hts_data and generate_embeddings
BuildEntries(t) ==
    /\ agents[t].pc = "building"
    /\ agents' = [agents EXCEPT ![t] =
                      IF hts_source.status = "ok"
                      THEN [@ EXCEPT !.pc = "opening",
                                     !.hs_entries =
                                         GenerateEmbeddings(
                                             LoadHtsData(hts_source.records),
                                             hts_source.records)]
                      ELSE IF hts_source.status = "missing"
                      THEN [@ EXCEPT !.pc = "done", !.hs_entries = <<>>]
                      ELSE [@ EXCEPT !.pc = "failed", !.raised = TRUE]]
    /\ UNCHANGED cache_file
    /\ UNCHANGED race_frame

\* line 44: open(..., 'wb') creates the file, or truncates the one there
OpenCache(t) ==
    /\ agents[t].pc = "opening"
    /\ agents' = [agents EXCEPT ![t].pc = "writing", ![t].pos = 0]
    /\ cache_file' = [exists |-> TRUE, content |-> <<>>]
    /\ UNCHANGED race_frame

\* line 45: pickle.dump hands the next part of the stream to the file
DumpEntries(t) ==
    /\ agents[t].pc = "writing"
    /\ LET stream == Pickle(agents[t].hs_entries)
           pos == agents[t].pos
       IN  /\ pos < Len(stream)
           /\ \E k \in 1..(Len(stream) - pos) :
                  /\ cache_file' =
                         [cache_file EXCEPT !.content =
                              WriteAt(@, pos, SubSeq(stream, pos + 1, pos + k))]
                  /\ agents' = [agents EXCEPT ![t].pos = pos + k]
    /\ UNCHANGED race_frame

\* the with block of line 44 ends: the file is closed
CloseCache(t) ==
    /\ agents[t].pc = "writing"
    /\ agents[t].pos = Len(Pickle(agents[t].hs_entries))
    /\ agents' = [agents EXCEPT ![t].pc = "done"]
    /\ UNCHANGED cache_file
    /\ UNCHANGED race_frame

NextRace ==
    \/ StartInit
    \/ \E t \in 1..Len(agents) : CheckCacheExists(t)
    \/ \E t \in 1..Len(agents) : LoadCache(t)
    \/ \E t \in 1..Len(agents) : BuildEntries(t)
    \/ \E t \in 1..Len(agents) : OpenCache(t)
    \/ \E t \in 1..Len(agents) : DumpEntries(t)
    \/ \E t \in 1..Len(agents) : CloseCache(t)

SpecRace == InitRace /\ [][NextRace]_vars

(***************************************************************************)
(* get_classifier called from several request threads of one process.      *)
(* classifier_instance is the module global _classifier_instance, 0 for    *)
(* None and otherwise the number of the construction that made the object; *)
(* threads[t] is call t: its position, the object it constructed and the   *)
(* object it returned.                                                     *)
(***************************************************************************)
NewThread == [pc |-> "start", made |-> 0, returned |-> 0]

InitSingleton ==
    /\ hts_source = [status |-> "ok", records |-> <<>>]
    /\ cache = NoCache
    /\ hs_database = <<>>
    /\ groq_client = FALSE
    /\ hs_entries = <<>>
    /\ pc = "idle"
    /\ call = NoCall
    /\ ret = NoRet
    /\ count = NoCount
    /\ sample = <<>>
    /\ raised = FALSE
    /\ AuxInit

singleton_frame ==
    <<engine_vars, prev, prompt, form, auth_vars, race_vars>>

\* a request thread calls get_classifier()
StartGetClassifier ==
    /\ Len(threads) < MaxThreads
    /\ threads' = Append(threads, NewThread)
    /\ UNCHANGED <<classifier_instance, constructions>>
    /\ UNCHANGED singleton_frame

\* line 264: if _classifier_instance is None
CheckInstance(t) ==
    /\ threads[t].pc = "start"
    /\ threads' = [threads EXCEPT ![t].pc =
                       IF classifier_instance = 0 THEN "constructing"
                       ELSE "returning"]
    /\ UNCHANGED <<classifier_instance, constructions>>
    /\ UNCHANGED singleton_frame

\* line 265, right-hand side: LLMHSClassifier() reads the HTS file and
\* builds the client
ConstructInstance(t) ==
    /\ threads[t].pc = "constructing"
    /\ constructions' = constructions + 1
    /\ threads' = [threads EXCEPT ![t].pc = "assigning",
                                  ![t].made = constructions + 1]
    /\ UNCHANGED classifier_instance
    /\ UNCHANGED singleton_frame

\* line 265, the assignment to the global
AssignInstance(t) ==
    /\ threads[t].pc = "assigning"
    /\ classifier_instance' = threads[t].made
    /\ threads' = [threads EXCEPT ![t].pc = "returning"]
    /\ UNCHANGED constructions
    /\ UNCHANGED singleton_frame

\* line 266: return _classifier_instance
ReturnInstance(t) ==
    /\ threads[t].pc = "returning"
    /\ threads' = [threads EXCEPT ![t].pc = "returned",
                                  ![t].returned = classifier_instance]
    /\ UNCHANGED <<classifier_instance, constructions>>
    /\ UNCHANGED singleton_frame

NextSingleton ==
    \/ StartGetClassifier
    \/ \E t \in 1..Len(threads) : CheckInstance(t)
    \/ \E t \in 1..Len(threads) : ConstructInstance(t)
    \/ \E t \in 1..Len(threads) : AssignInstance(t)
    \/ \E t \in 1..Len(threads) : ReturnInstance(t)

SpecSingleton == InitSingleton /\ [][NextSingleton]_vars

(***************************************************************************)
(* Properties.                                                             *)
(***************************************************************************)
Returned(op) == pc = "done" /\ call.op = op

\* empty or whitespace only
AllSpace(text) == \A i \in 1..Len(text) : text[i] = " "

\* classify got past its three early returns and called the model
CalledModel ==
    /\ Returned("classify")
    /\ hs_database # <<>>
    /\ groq_client
    /\ ~AllSpace(call.product_description)

\* some catalog description shares a lowercase word with the text
SharesWord(text) ==
    \E i \in 1..Len(hs_database) :
        WordSet(text) \cap WordSet(hs_database[i].description) # {}

NonIncreasing(confidences) ==
    \A i, j \in 1..Len(confidences) : i < j => confidences[i] >= confidences[j]

\* C1: when the model's response cannot be parsed, classify returns the list
\* the Fallback Matcher computes from the caller's product description, the
\* full catalog and the same top_n.
C1_FallbackOnProductDescription ==
    (CalledModel /\ ret.path = "fallback") =>
        ret.results = FallbackKeywordMatch(call.product_description,
                                           call.top_n, hs_database)

\* C2: with a non-empty catalog, a configured client, a non-blank description
\* and a model call that returns text, classify (top_n >= 1) returns a
\* non-empty list.
C2_NeverEmptyHanded ==
    (CalledModel /\ call.outcome.kind = "text" /\ call.top_n >= 1) =>
        ret.results # <<>>

\* C2, amended: under the same conditions classify returns a non-empty list
\* whenever the response parses and its matches array is non-empty, or the
\* response does not parse and its text shares a word with some catalog
\* description.
C2_NonEmptyWhenSomethingMatches ==
    ( /\ CalledModel
      /\ call.outcome.kind = "text"
      /\ call.top_n >= 1
      /\ \/ ret.path = "parsed" /\ call.outcome.json.items # <<>>
         \/ ret.path = "fallback" /\ SharesWord(Strip(call.outcome.text)) )
    => ret.results # <<>>

C2_Witness ==
    /\ CalledModel
    /\ call.outcome.kind = "text"
    /\ call.top_n >= 1
    /\ ret.path = "fallback"
    /\ SharesWord(Strip(call.outcome.text))
    /\ ret.results # <<>>

\* C3: for a non-empty catalog and top_n >= 1, LLMHSClassifier.classify (also
\* when it falls back to keyword matching), TradeAgent.classify_product and
\* get_hs_suggestions return at most top_n results.
C3_AtMostTopN ==
    ( /\ pc = "done"
      /\ call.op \in {"classify", "classify_product", "get_hs_suggestions"}
      /\ call.top_n >= 1 )
    => Len(ret.results) <= call.top_n

C3_Witness ==
    /\ CalledModel
    /\ ret.path = "parsed"
    /\ call.top_n >= 1
    /\ Len(call.outcome.json.items) > call.top_n
    /\ Len(ret.results) = call.top_n

\* C4: for top_n >= 1 and a parseable response, the list classify returns is
\* sorted by confidence in non-increasing order (stated here for responses
\* whose confidences all lie in [0, 1], so that it does not rest on C5).
C4_ParsedSortedByConfidence ==
    ( /\ CalledModel
      /\ ret.path = "parsed"
      /\ call.top_n >= 1
      /\ \A i \in 1..Len(call.outcome.json.items) :
             call.outcome.json.items[i].conf \in 0..10 )
    => NonIncreasing([i \in 1..Len(ret.results) |-> ret.results[i].confidence])

\* C5: every result classify returns (reasoning or fallback) has a confidence
\* in [0, 1], that is 0..10 tenths.
C5_ConfidenceInUnitInterval ==
    Returned("classify") =>
        \A i \in 1..Len(ret.results) :
            ret.results[i].confidence >= 0 /\ ret.results[i].confidence <= 10

\* C6: classify_hs with top_n >= 1 returns the first min(top_n, len(entries))
\* entries of the catalog stably sorted by similarity descending: scores do
\* not increase, equal scores keep catalog order, and each result is the
\* code and description of a catalog entry with that entry's score.
C6_TopOfStableRanking ==
    (Returned("classify_product") /\ hs_entries # <<>> /\ call.top_n >= 1) =>
        LET n == Len(hs_entries)
            score(i) == CosineSimilarity(call.desc_embedding, hs_entries[i].embedding)
            Before(i, j) == score(i) > score(j) \/ (score(i) = score(j) /\ i < j)
            AtRank(r) == CHOOSE i \in 1..n :
                             Cardinality({j \in 1..n : Before(j, i)}) = r - 1
        IN  /\ Len(ret.results) = Min(call.top_n, n)
            /\ NonIncreasing([p \in 1..Len(ret.results) |-> ret.results[p][3]])
            /\ \A p \in 1..Len(ret.results) :
                   ret.results[p] = <<hs_entries[AtRank(p)].htsno,
                                      hs_entries[AtRank(p)].description,
                                      score(AtRank(p))>>

C6_Witness ==
    /\ Returned("classify_product")
    /\ call.top_n = 1
    /\ Len(hs_entries) = 2
    /\ hs_entries[1].htsno # hs_entries[2].htsno
    /\ hs_entries[1].embedding = hs_entries[2].embedding
    /\ ret.results = <<<<hs_entries[1].htsno, hs_entries[1].description,
                         CosineSimilarity(call.desc_embedding,
                                          hs_entries[1].embedding)>>>>

\* C7: for every catalog longer than the budget (120), the sample of
\* _create_knowledge_sample has at most budget entries.
C7_SampleWithinBudget ==
    (Returned("_create_knowledge_sample") /\ Len(hs_database) > KnowledgeBudget) =>
        Len(sample) <= KnowledgeBudget

\* C8: the sample is the catalog entries at source indices 0, stride,
\* 2*stride, ... in catalog order, with stride 1 for a catalog of at most
\* budget entries and len // budget >= 1 otherwise; the source indices
\* increase strictly.
C8_SampleIsEveryStrideth ==
    Returned("_create_knowledge_sample") =>
        LET n == Len(hs_database)
            stride == IF n <= KnowledgeBudget THEN 1 ELSE n \div KnowledgeBudget
            picked == {i \in 0..(n - 1) : i % stride = 0}
        IN  /\ stride >= 1
            /\ Len(sample) = Cardinality(picked)
            /\ \A k \in 1..Len(sample) :
                   /\ (k - 1) * stride \in picked
                   /\ sample[k] = hs_database[(k - 1) * stride + 1]
            /\ \A k \in 1..(Len(sample) - 1) :
                   (k - 1) * stride < k * stride

C8_Witness ==
    /\ Returned("_create_knowledge_sample")
    /\ Len(hs_database) = 2 * KnowledgeBudget + 1
    /\ Len(sample) = KnowledgeBudget + 1
    /\ sample[2].htsno = "2"

\* C9: classify with an empty or whitespace-only description returns []
\* without calling the text-generation service or the Fallback Matcher.
C9_BlankDescriptionShortCircuits ==
    (Returned("classify") /\ AllSpace(call.product_description)) =>
        /\ ret.results = <<>>
        /\ count.llm = 0
        /\ count.fallback = 0

C9_Witness ==
    /\ Returned("classify")
    /\ hs_database # <<>>
    /\ groq_client
    /\ call.product_description = <<" ">>
    /\ ret.path = "blank"
    /\ count.llm = 0

\* C10: on the embedding path (classify_product, get_hs_suggestions) an
\* empty or whitespace-only description returns [] and the embedding model
\* is not invoked, also when the catalog is non-empty.
C10_BlankDescriptionSkipsEmbedding ==
    ( /\ pc = "done"
      /\ call.op \in {"classify_product", "get_hs_suggestions"}
      /\ call.top_n >= 1
      /\ AllSpace(call.product_description) )
    => (ret.results = <<>> /\ count.embed = 0)

\* C11: with an empty catalog, classify and classify_product return [] for
\* every description and top_n, raise nothing, and call neither the
\* text-generation service nor the embedding model.
C11_EmptyCatalogReturnsNothing ==
    /\ (Returned("classify") /\ hs_database = <<>>) =>
           /\ ret.results = <<>>
           /\ ~raised
           /\ count.llm = 0
           /\ count.embed = 0
    /\ (Returned("classify_product") /\ hs_entries = <<>>) =>
           /\ ret.results = <<>>
           /\ ~raised
           /\ count.llm = 0
           /\ count.embed = 0

C11_Witness ==
    /\ Returned("classify")
    /\ hs_database = <<>>
    /\ groq_client
    /\ call.product_description = <<"a">>
    /\ call.top_n >= 1
    /\ ret.path = "no_database"

\* C12: without a configured client, classify on a non-empty catalog returns
\* [] at once: no knowledge sample is built, the model is not called and the
\* Fallback Matcher is not run.
C12_NoClientReturnsNothing ==
    (Returned("classify") /\ hs_database # <<>> /\ ~groq_client) =>
        /\ ret.results = <<>>
        /\ sample = <<>>
        /\ count.llm = 0
        /\ count.fallback = 0

C12_Witness ==
    /\ Returned("classify")
    /\ hs_database # <<>>
    /\ ~groq_client
    /\ call.product_description = <<"a">>
    /\ call.top_n >= 1
    /\ ret.path = "no_client"

\* C13: when the text-generation call raises, classify returns [], nothing
\* is raised to the caller and the Fallback Matcher is not run.
C13_ModelErrorReturnsNothing ==
    (CalledModel /\ call.outcome.kind = "raise") =>
        /\ ret.results = <<>>
        /\ ~raised
        /\ count.fallback = 0

C13_Witness ==
    /\ CalledModel
    /\ call.outcome.kind = "raise"
    /\ call.top_n >= 1
    /\ SharesWord(call.product_description)
    /\ ret.path = "error"

\* C14: one classify makes exactly one text-generation call when the catalog
\* is non-empty, a client is configured and the description is not blank, and
\* none otherwise; a failed call or an unparsable response adds no second call.
C14_AtMostOneModelCall ==
    Returned("classify") =>
        count.llm = IF /\ hs_database # <<>>
                       /\ groq_client
                       /\ ~AllSpace(call.product_description)
                    THEN 1 ELSE 0

C14_Witness ==
    /\ CalledModel
    /\ ret.path = "fallback"
    /\ count.fallback = 1
    /\ count.llm = 1

\* Distinct lowercase words the text shares with each catalog description
SharedWords(text) ==
    LET words == WordSet(text)
    IN  [i \in 1..Len(hs_database) |->
            Cardinality(words \cap WordSet(hs_database[i].description))]

\* The catalog positions of the entries sharing a word with the text, by
\* rank: more shared words first, catalog order among equals
FallbackRanking(text) ==
    LET shared == SharedWords(text)
        matching == {i \in 1..Len(hs_database) : shared[i] >= 1}
        Before(i, j) ==
            \/ shared[i] > shared[j]
            \/ (shared[i] = shared[j] /\ i < j)
    IN  [r \in 1..Cardinality(matching) |->
            CHOOSE i \in matching :
                Cardinality({j \in matching : Before(j, i)}) = r - 1]

\* C15: the Fallback Matcher returns exactly the first top_n catalog entries
\* that share at least one lowercase word with the text, most shared words
\* first and catalog order among equals; with no shared word it returns [].
C15_FallbackRanksByOverlap ==
    Returned("_fallback_keyword_match") =>
        LET ranking == FallbackRanking(call.product_description)
        IN  /\ Len(ret.results) = Min(call.top_n, Len(ranking))
            /\ \A p \in 1..Len(ret.results) :
                   /\ ret.results[p].hs_code = hs_database[ranking[p]].htsno
                   /\ ret.results[p].description =
                          hs_database[ranking[p]].description
            /\ (ranking = <<>>) => ret.results = <<>>

C15_Witness ==
    /\ Returned("_fallback_keyword_match")
    /\ call.top_n = 2
    /\ SharedWords(call.product_description) = <<1, 2, 2>>
    /\ hs_database[2].htsno # hs_database[3].htsno
    /\ Len(ret.results) = 2
    /\ ret.results[1].hs_code = hs_database[2].htsno
    /\ ret.results[2].hs_code = hs_database[3].htsno

\* C16: every fallback result has confidence min(0.5, 0.1 * overlap) with
\* overlap >= 1 the number of distinct shared words, so it is above 0, at
\* most 0.5 and non-increasing along the list (confidence in tenths).
C16_FallbackConfidence ==
    Returned("_fallback_keyword_match") =>
        LET shared == SharedWords(call.product_description)
            ranking == FallbackRanking(call.product_description)
        IN  /\ Len(ret.results) <= Len(ranking)
            /\ \A p \in 1..Len(ret.results) :
                   /\ shared[ranking[p]] >= 1
                   /\ ret.results[p].confidence =
                          IF shared[ranking[p]] >= 5 THEN 5
                          ELSE shared[ranking[p]]
                   /\ ret.results[p].confidence > 0
                   /\ ret.results[p].confidence <= 5
            /\ NonIncreasing([p \in 1..Len(ret.results) |->
                                 ret.results[p].confidence])

C16_Witness ==
    /\ Returned("_fallback_keyword_match")
    /\ Len(ret.results) = 2
    /\ SharedWords(call.product_description) = <<2, 7>>
    /\ ret.results[1].confidence = 5
    /\ ret.results[2].confidence = 2

\* C17: when the response parses, the i-th result carries the hs_code of the
\* i-th match unchanged, its description is that of the first entry of the
\* whole catalog with that code, or "Description not found" when no entry
\* has the code, and none of the first top_n matches is left out.
C17_ParsedCarriesCodeAndDescription ==
    (CalledModel /\ ret.path = "parsed") =>
        LET matches == call.outcome.json.items
            hits(code) == {i \in 1..Len(hs_database) : hs_database[i].htsno = code}
            first(code) == CHOOSE i \in hits(code) : \A j \in hits(code) : i <= j
        IN  /\ Len(ret.results) = Min(call.top_n, Len(matches))
            /\ \A p \in 1..Len(ret.results) :
                   matches[p].has_code =>
                       /\ ret.results[p].hs_code = matches[p].hs_code
                       /\ ret.results[p].description =
                              IF hits(matches[p].hs_code) = {}
                              THEN DescriptionNotFound
                              ELSE hs_database[first(matches[p].hs_code)].description

\* C18: after loading, every catalog entry has a non-empty description:
\* _load_hts_database and load_hts_data both drop the records without one
\* and keep the others in file order.
C18_LoadedEntriesHaveDescription ==
    /\ (Returned("LLMHSClassifier") /\ hts_source.status = "ok") =>
           /\ \A i \in 1..Len(hs_database) : hs_database[i].description # <<>>
           /\ [i \in 1..Len(hs_database) |-> hs_database[i].description] =
                  LET kept == SelectSeq(hts_source.records,
                                        LAMBDA item : item.description # <<>>)
                  IN  [i \in 1..Len(kept) |-> kept[i].description]
    /\ (Returned("TradeAgent") /\ ret.path = "built") =>
           /\ \A i \in 1..Len(hs_entries) : hs_entries[i].description # <<>>
           /\ [i \in 1..Len(hs_entries) |-> hs_entries[i].description] =
                  LET kept == SelectSeq(hts_source.records,
                                        LAMBDA item : item.description # <<>>)
                  IN  [i \in 1..Len(kept) |-> kept[i].description]

\* C19: with the HTS file missing or malformed, constructing LLMHSClassifier
\* or TradeAgent (no cache file) raises nothing and leaves an empty catalog.
C19_BadSourceGivesEmptyCatalog ==
    /\ (Returned("LLMHSClassifier") /\ hts_source.status # "ok") =>
           (~raised /\ hs_database = <<>>)
    /\ (Returned("TradeAgent") /\ hts_source.status # "ok" /\ ~cache.exists) =>
           (~raised /\ hs_entries = <<>>)

\* C20: TradeAgent's initialisation is load-or-build.  With a cache file it
\* takes the cached entries and runs neither the loader nor the embedding
\* generation, whatever the HTS file now holds; without one it builds the
\* entries from the HTS file and writes them to the cache; the cache, once
\* written, is never rewritten, so every later initialisation builds nothing
\* and yields the same entries.
C20_LoadOrBuild ==
    [][ /\ cache.exists => cache' = cache
        /\ (pc = "idle" /\ pc' = "done" /\ call'.op = "TradeAgent") =>
               IF cache.exists
               THEN /\ hs_entries' = cache.entries
                    /\ count'.load = 0
                    /\ count'.embed = 0
               ELSE hts_source.status = "ok" =>
                        /\ hs_entries' =
                               GenerateEmbeddings(LoadHtsData(hts_source.records),
                                                  hts_source.records)
                        /\ cache' = [exists |-> TRUE, entries |-> hs_entries']
                        /\ count'.load = 1
                        /\ count'.embed = 1 ]_vars

C20_Witness ==
    /\ Returned("TradeAgent")
    /\ ret.path = "cache"
    /\ hts_source.status = "ok"
    /\ hs_entries # <<>>
    /\ hs_entries # GenerateEmbeddings(LoadHtsData(hts_source.records),
                                       hts_source.records)
    /\ count.load = 0

ClassificationFailed ==
    \/ /\ form.op = "fill_form"
       /\ form.auto_classify_hs
       /\ Strip(ProductDescOf(form.result)) # <<>>
       /\ (form.classification.kind = "raise"
           \/ form.classification.results = <<>>)
    \/ /\ form.op = "fill_trade_form"
       /\ form.auto_classify_hs
       /\ hs_entries # <<>>
       /\ TradeProductDesc(form.result) # <<>>
       /\ form.embedding.kind = "raise"

\* C22: a failure of the HS classification never fails form filling: when
\* the classifier raises or yields nothing inside fill_form
\* (auto_classify_hs=True) or fill_trade_form, the call still returns the
\* values extracted from the prompt.
C22_ClassificationFailureKeepsForm ==
    (pc = "done" /\ form # NoForm /\ form.extracted /\ ClassificationFailed) =>
        /\ ~raised
        /\ ret.results = form.result

\* C27: fill_form with auto_classify_hs=True, a non-blank product
\* description among the extracted values and at least one classifier
\* result sets the first field whose name contains "hs" and "code" to the
\* hs_code of the top result.
C27_AutoFillsHsCode ==
    ( /\ Returned("fill_form")
      /\ form.extracted
      /\ form.auto_classify_hs
      /\ Strip(ProductDescOf(form.result)) # <<>>
      /\ form.classification.kind = "list"
      /\ form.classification.results # <<>> )
    => LET hs_fields == {i \in 1..Len(ret.results) :
                            /\ KeyContains(ret.results[i].key, "hs")
                            /\ KeyContains(ret.results[i].key, "code")}
           first == CHOOSE i \in hs_fields : \A j \in hs_fields : i <= j
       IN  hs_fields # {} =>
               ret.results[first].value =
                   <<form.classification.results[1].hs_code>>

\* C23: once a token has been used in a successful logout it is in the
\* blacklist and never leaves it, and every later request presenting it to
\* a login_required endpoint gets 401 without its handler running; a signed
\* token that was not logged out and has not expired is accepted for an
\* active user.
C23_LoggedOutTokenStaysRejected ==
    [][ /\ token_blacklist \subseteq token_blacklist'
        /\ (response = NoResponse /\ response'.endpoint = "logout"
            /\ response'.status = 200) =>
               response'.request.token \in token_blacklist'
        /\ (response = NoResponse /\ response'.endpoint \in {"me", "logout"}) =>
               LET token == response'.request.token
               IN  /\ token \in token_blacklist =>
                          (response'.status = 401 /\ ~response'.handler_ran)
                   /\ ( /\ token \in issued
                        /\ token \notin token_blacklist
                        /\ now < token.iat + JWT_EXPIRATION_HOURS
                        /\ users[token.user_id].is_active ) =>
                          (response'.status = 200 /\ response'.handler_ran)
      ]_vars

C23_Witness ==
    /\ response.endpoint = "me"
    /\ response.request.token \in token_blacklist
    /\ now < response.request.token.iat + JWT_EXPIRATION_HOURS
    /\ response.status = 401
    /\ \E t \in issued \ token_blacklist :
           now < t.iat + JWT_EXPIRATION_HOURS

\* a password the registration must accept
StrongPassword(password) ==
    /\ Len(password) >= PASSWORD_MIN_LENGTH
    /\ \E i \in 1..Len(password) : IsUpperChar(password[i])
    /\ \E i \in 1..Len(password) : IsLowerChar(password[i])
    /\ \E i \in 1..Len(password) : IsDigitChar(password[i])

\* C24: a registration creates a user (201 with a token) only if the
\* password has PASSWORD_MIN_LENGTH characters, an upper-case letter, a
\* lower-case letter and a digit and neither the email nor the username is
\* registered; a weak password gets 400 and a duplicate 409, and neither
\* creates a user; so no two users ever share an email or a username.
C24_RegistrationKeepsUsersUnique ==
    /\ [](\A i, j \in 1..Len(users) :
              i # j => /\ users[i].email # users[j].email
                       /\ users[i].username # users[j].username)
    /\ [][ (response = NoResponse /\ response'.endpoint = "register") =>
               LET data == response'.request
                   duplicate == \E i \in 1..Len(users) :
                                    \/ users[i].email = data.email
                                    \/ users[i].username = data.username
               IN  /\ response'.status = 201 =>
                          /\ StrongPassword(data.password)
                          /\ ~duplicate
                          /\ Len(users') = Len(users) + 1
                          /\ users'[Len(users')].email = data.email
                          /\ users'[Len(users')].username = data.username
                          /\ response'.token \in issued'
                   /\ response'.status # 201 => users' = users
                   /\ ~StrongPassword(data.password) => response'.status = 400
                   /\ (data.complete /\ StrongPassword(data.password)
                       /\ duplicate) => response'.status = 409
         ]_vars

C24_Witness ==
    /\ response.endpoint = "register"
    /\ response.status = 409
    /\ Len(users) = 1
    /\ users[1].email = response.request.email
    /\ users[1].username # response.request.username

\* the phases a step may lead from and to, the error exit left out
PhaseStep(from, to) ==
    \/ from = "idle" /\ to \in {"sampling", "done"}
    \/ from = "sampling" /\ to = "prompt_built"
    \/ from = "prompt_built" /\ to = "model_called"
    \/ from = "model_called" /\ to \in {"parsed_ok", "parse_failed"}
    \/ from = "parse_failed" /\ to = "fallback_invoked"
    \/ from \in {"parsed_ok", "fallback_invoked"} /\ to = "done"

\* the model is called only with a prompt built from the sample, and the
\* Fallback Matcher runs only after a call that returned an unparsable text
PhasesRespectOrder ==
    /\ count.llm >= 1 =>
           /\ prompt.built
           /\ prompt.sample = sample
           /\ prompt.product_description = call.product_description
    /\ count.fallback >= 1 =>
           /\ count.llm = 1
           /\ call.outcome.kind = "text"
           /\ pc \in {"fallback_invoked", "done"}
           /\ \/ call.outcome.json.kind # "object"
              \/ call.outcome.json.matches = "null"
              \/ \E k \in 1..Min(call.top_n, Len(call.outcome.json.items)) :
                     call.outcome.json.items[k].conf_kind = "text"

\* C25: a classify invocation that passes the precondition checks samples,
\* builds the prompt, calls the model, then is ParsedOK or ParseFailed
\* followed by the Fallback Matcher, and always reaches Done with a list.
C25_PhasesInOrder ==
    /\ [][pc' # pc => PhaseStep(pc, pc')]_vars
    /\ []PhasesRespectOrder
    /\ (pc = "sampling") ~> (pc = "done")

\* C25 as the code has it: a model call that raises leads from ModelCalled
\* straight to Done with the empty list, through neither ParsedOK nor
\* ParseFailed; everything else is as stated.
C25_PhasesInOrderOrError ==
    /\ [][pc' # pc =>
             \/ PhaseStep(pc, pc')
             \/ /\ pc = "model_called"
                /\ call.outcome.kind = "raise"
                /\ pc' = "done"
                /\ ret'.results = <<>> ]_vars
    /\ [][(pc = "model_called" /\ call.outcome.kind = "text") =>
              pc' \in {"model_called", "parsed_ok", "parse_failed"}]_vars
    /\ []PhasesRespectOrder
    /\ (pc = "sampling") ~> (pc = "done")

C25_Witness ==
    /\ pc = "done"
    /\ call.op = "classify"
    /\ prompt.built
    /\ count.llm = 1
    /\ count.fallback = 1
    /\ ret.path = "fallback"
    /\ ret.results # <<>>

\* C26: no classify invocation on either path changes the loaded catalog:
\* after any sequence of calls the reasoning catalog and the embedding
\* catalog hold the entries they were loaded with, in the same order and
\* with the same embeddings.
C26_ClassifyLeavesCatalog ==
    /\ [](/\ hs_database = LoadHtsDatabase(hts_source.records)
          /\ hs_entries = GenerateEmbeddings(LoadHtsData(hts_source.records),
                                             hts_source.records))
    /\ [][hs_database' = hs_database /\ hs_entries' = hs_entries]_vars

C26_Witness ==
    /\ pc = "done"
    /\ call.op = "classify_product"
    /\ ret.path = "embedding"
    /\ Len(ret.results) = 2
    /\ Len(hs_entries) = 2
    /\ hs_entries[1] # hs_entries[2]
    /\ hs_entries = cache.entries

\* C28: TradeAgent's initialisation writes the cache only after the loader
\* and the embedding generation have both succeeded.  With no cache file and
\* the HTS file not found, the agent ends with an empty catalog and there is
\* still no cache file; a cache file appears only in an initialisation that
\* built the entries, so every initialisation after a failed one attempts
\* the build again.
C28_CacheOnlyAfterBuild ==
    /\ [][(~cache.exists /\ cache'.exists) =>
              /\ pc = "idle"
              /\ call'.op = "TradeAgent"
              /\ hts_source.status = "ok"
              /\ count'.load = 1
              /\ count'.embed = 1
              /\ cache'.entries = hs_entries'
              /\ hs_entries' = GenerateEmbeddings(LoadHtsData(hts_source.records),
                                                  hts_source.records)]_vars
    /\ [][(pc = "idle" /\ pc' = "done" /\ call'.op = "TradeAgent"
           /\ ~cache.exists) =>
              /\ count'.load = 1
              /\ hts_source.status = "missing" =>
                     /\ ~raised'
                     /\ hs_entries' = <<>>
                     /\ ~cache'.exists]_vars

C28_Witness ==
    /\ pc = "done"
    /\ call.op = "TradeAgent"
    /\ hts_source.status = "missing"
    /\ ~cache.exists
    /\ hs_entries = <<>>
    /\ count.load = 1
    /\ count.embed = 0
    /\ ~raised

\* C29: with several TradeAgent initialisations running at once and no cache
\* file at the start, no initialisation loads a partially written cache: a
\* cache file that an initialisation has seen to exist is complete, and no
\* load of it fails.
C29_NoPartialCacheLoaded ==
    /\ (cache_file.exists /\ \E t \in 1..Len(agents) : agents[t].pc = "loading")
           => IsCompletePickle(cache_file.content)
    /\ \A t \in 1..Len(agents) :
           agents[t].raised => hts_source.status = "malformed"

\* C30: get_classifier constructs LLMHSClassifier at most once per process
\* and every call returns the same instance, also when the first calls are
\* made at once from several request threads.
C30_OneClassifierInstance ==
    /\ constructions <= 1
    /\ \A t, u \in 1..Len(threads) :
           (threads[t].pc = "returned" /\ threads[u].pc = "returned") =>
               threads[t].returned = threads[u].returned

====
